---- MODULE Spec2Model ----
(***************************************************************************)
(* Model of annotator/store.py: the AnnotatorStore WSGI application.       *)
(*                                                                         *)
(* Strings (mount points, resource names, request paths, URLs) are         *)
(* sequences of tokens.  The token "/" is the path separator; every other  *)
(* token is an opaque, slash-free and dot-free piece of text.  String      *)
(* concatenation is \o, so the code's string arithmetic on paths is        *)
(* modelled as it executes.                                                *)
(***************************************************************************)
EXTENDS Integers, Sequences, FiniteSets, TLC

(***************************************************************************)
(* Bounds of the model.                                                    *)
(***************************************************************************)
\* number of identifiers the database hands out before create is cut off
MaxId == 2
\* longest JSON list payload of a create/update request
MaxList == 2
\* number of request-handling threads sharing one AnnotatorStore instance
NumThreads == 2
MaxRows == 3

Threads == 1..NumThreads

(***************************************************************************)
(* Strings.                                                                *)
(***************************************************************************)
Slash == "/"

startswith_slash(s) == Len(s) > 0 /\ s[1] = Slash

endswith_slash(s) == Len(s) > 0 /\ s[Len(s)] = Slash

\* routes.util.strip_slashes as called by Mapper.resource: one leading and
\* one trailing slash are removed
strip_slashes(s) ==
    LET a == IF startswith_slash(s) THEN Tail(s) ELSE s
    IN  IF endswith_slash(a) THEN SubSeq(a, 1, Len(a) - 1) ELSE a

\* str(id) of a database identifier, as URL generation formats it
IdStr(n) == CASE n = 1 -> <<"1">>
              [] n = 2 -> <<"2">>
              [] n = 3 -> <<"3">>
              [] n = 4 -> <<"4">>
              [] OTHER -> <<"big">>

\* the identifiers the database can hand out
Ids == 1..MaxId

(***************************************************************************)
(* Configuration: AnnotatorStore(mount_point, resource_name).              *)
(***************************************************************************)
Configs ==
    { [mount_point |-> <<"/">>,
       resource_name |-> << <<"annotation">>, <<"annotations">> >>],
      [mount_point |-> <<"/", ".annotation-xyz">>,
       resource_name |-> << <<"foobar">>, <<"foobars">> >>],
      [mount_point |-> <<"store", "/">>,
       resource_name |-> << <<"annotation">>, <<"annotations">> >>] }

\* line 30: a leading slash is enforced
MountPoint(c) ==
    IF startswith_slash(c.mount_point) THEN c.mount_point
    ELSE <<Slash>> \o c.mount_point

Sing(c) == c.resource_name[1]
Plur(c) == c.resource_name[2]

(***************************************************************************)
(* The route table built by __init__.  A route is a record                 *)
(*   name    the route name (a tuple of strings; <<>> for unnamed routes)  *)
(*   methods the request methods of its conditions                         *)
(*   path    the route path: tokens, with IdVar standing for {id}          *)
(*   action  the action it resolves to                                     *)
(* The table is in the order the routes are connected, which is the order  *)
(* the mapper tries them in.                                               *)
(***************************************************************************)
IdVar == ":(id)"

Route(n, ms, p, a) == [name |-> n, methods |-> ms, path |-> p, action |-> a]

\* Mapper.resource(sing, plur, path_prefix=mount_point,
\*                 collection={'search': 'GET'})
\* collection_path = '/' + strip_slashes(path_prefix) + '/' + plur, or
\* '/' + plur when the stripped prefix is empty
CollectionPath(c) ==
    LET prefix == <<Slash>> \o strip_slashes(MountPoint(c))
        controller == strip_slashes(Plur(c))
    IN  IF prefix # <<Slash>> THEN prefix \o <<Slash>> \o controller
        ELSE <<Slash>> \o controller

MemberPath(c) == CollectionPath(c) \o <<Slash, IdVar>>

\* the member routes connected before the collection routes
ResourceRoutesMemberFirst(c) ==
    << Route(Sing(c), {"GET"}, MemberPath(c), "show"),
       Route(<<>>, {"PUT"}, MemberPath(c), "update"),
       Route(<<>>, {"DELETE"}, MemberPath(c), "delete"),
       Route(<<"search">> \o Plur(c), {"GET"},
             CollectionPath(c) \o <<Slash, "search">>, "search"),
       Route(<<>>, {"POST"}, CollectionPath(c), "create"),
       Route(Plur(c), {"GET"}, CollectionPath(c), "index"),
       Route(<<"new">> \o Sing(c), {"GET"},
             CollectionPath(c) \o <<Slash, "new">>, "new"),
       Route(<<"edit">> \o Sing(c), {"GET"},
             MemberPath(c) \o <<Slash, "edit">>, "edit") >>

ResourceRoutes(c) ==
    << Route(<<"search">> \o Plur(c), {"GET"},
             CollectionPath(c) \o <<Slash, "search">>, "search"),
       Route(<<>>, {"POST"}, CollectionPath(c), "create"),
       Route(Plur(c), {"GET"}, CollectionPath(c), "index"),
       Route(<<"new">> \o Sing(c), {"GET"},
             CollectionPath(c) \o <<Slash, "new">>, "new"),
       Route(<<"edit">> \o Sing(c), {"GET"},
             MemberPath(c) \o <<Slash, "edit">>, "edit"),
       Route(<<>>, {"PUT"}, MemberPath(c), "update"),
       Route(<<>>, {"DELETE"}, MemberPath(c), "delete"),
       Route(Sing(c), {"GET"}, MemberPath(c), "show") >>

\* mapper.submapper(action='cors_preflight', path_prefix=mount_point,
\*                  conditions=dict(method=["OPTIONS"])):
\* SubMapper.connect prepends path_prefix to the route path as given
PreflightRoutes(c) ==
    << Route(<<>>, {"OPTIONS"}, MountPoint(c) \o Plur(c), "cors_preflight"),
       Route(<<>>, {"OPTIONS"}, MountPoint(c) \o Plur(c) \o <<Slash, IdVar>>,
             "cors_preflight") >>

RouteTable(c) == ResourceRoutes(c) \o PreflightRoutes(c)

(***************************************************************************)
(* Matching: mapper.match(path) under mapper.environ's REQUEST_METHOD.     *)
(***************************************************************************)
\* length of the longest slash-free prefix of s
RECURSIVE SegLen(_)
SegLen(s) ==
    IF s = <<>> \/ Head(s) = Slash THEN 0 ELSE 1 + SegLen(Tail(s))

NoBinding == [ok |-> FALSE]

\* a route expression that tolerates any number of trailing slashes (/*$)
RECURSIVE PathMatchAnySlashes(_, _)
PathMatchAnySlashes(pat, s) ==
    IF pat = <<>>
    THEN IF \A i \in 1..Len(s) : s[i] = Slash THEN [ok |-> TRUE]
         ELSE NoBinding
    ELSE IF Head(pat) = IdVar
    THEN LET n == SegLen(s)
         IN  IF n = 0 THEN NoBinding
             ELSE LET rest == PathMatchAnySlashes(Tail(pat),
                                                  SubSeq(s, n + 1, Len(s)))
                  IN  IF rest.ok THEN [ok |-> TRUE, id |-> SubSeq(s, 1, n)]
                      ELSE NoBinding
    ELSE IF s # <<>> /\ Head(s) = Head(pat)
    THEN PathMatchAnySlashes(Tail(pat), Tail(s))
    ELSE NoBinding

\* The route's regular expression against the path: literal tokens match
\* themselves, {id} matches one or more slash-free tokens ([^/]+), and one
\* trailing slash is optional (the expression ends in /?$).
RECURSIVE PathMatch(_, _)
PathMatch(pat, s) ==
    IF pat = <<>>
    THEN IF s = <<>> \/ s = <<Slash>> THEN [ok |-> TRUE] ELSE NoBinding
    ELSE IF Head(pat) = IdVar
    THEN LET n == SegLen(s)
         IN  IF n = 0 THEN NoBinding
             ELSE LET rest == PathMatch(Tail(pat), SubSeq(s, n + 1, Len(s)))
                  IN  IF rest.ok THEN [ok |-> TRUE, id |-> SubSeq(s, 1, n)]
                      ELSE NoBinding
    ELSE IF s # <<>> /\ Head(s) = Head(pat)
    THEN PathMatch(Tail(pat), Tail(s))
    ELSE NoBinding

None == [none |-> TRUE]

MatchDict(r, b) ==
    IF "id" \in DOMAIN b THEN [action |-> r.action, id |-> b.id]
    ELSE [action |-> r.action]

RouteMatches(r, method, path) ==
    method \in r.methods /\ PathMatch(r.path, path).ok

\* the first route of the table, in connection order, whose expression
\* matches the path and whose method condition admits the request method
RECURSIVE FirstMatch(_, _, _)
FirstMatch(table, method, path) ==
    IF table = <<>> THEN None
    ELSE IF RouteMatches(Head(table), method, path)
    THEN MatchDict(Head(table), PathMatch(Head(table).path, path))
    ELSE FirstMatch(Tail(table), method, path)

match(c, method, path) == FirstMatch(RouteTable(c), method, path)

(***************************************************************************)
(* URL generation: routes.util.URLGenerator.__call__(name, id=...).        *)
(***************************************************************************)
RECURSIVE Fill(_, _)
Fill(path, id) ==
    IF path = <<>> THEN <<>>
    ELSE (IF Head(path) = IdVar THEN id ELSE <<Head(path)>>)
         \o Fill(Tail(path), id)

\* the route connected last under a name is the one the name refers to
RECURSIVE NamedRoute(_, _)
NamedRoute(table, name) ==
    IF table = <<>> THEN None
    ELSE IF table[Len(table)].name = name THEN table[Len(table)]
    ELSE NamedRoute(SubSeq(table, 1, Len(table) - 1), name)

\* url(name, id=id): the named route's path with id filled in; a name that
\* is no route name is taken as a static URL and the arguments become its
\* query string
URLGenerator(c, name, id) ==
    LET r == NamedRoute(RouteTable(c), name)
    IN  IF r # None THEN Fill(r.path, id)
        ELSE name \o <<"?", "id=">> \o id

HasId(r) == \E i \in DOMAIN r.path : r.path[i] = IdVar

\* the first route of the table with action a whose method condition admits
\* m and whose path takes an id (withId) or takes none
RECURSIVE FirstRoute(_, _, _, _)
FirstRoute(table, a, m, withId) ==
    IF table = <<>> THEN None
    ELSE IF /\ Head(table).action = a
            /\ m \in Head(table).methods
            /\ HasId(Head(table)) = withId
    THEN Head(table)
    ELSE FirstRoute(Tail(table), a, m, withId)

\* mapper.generate(action=a, id=id, method=m), id = <<>> standing for no id:
\* the route whose path takes exactly the arguments given is preferred; an
\* id no route path takes goes to the query string
generate(c, a, id, m) ==
    LET exact == FirstRoute(RouteTable(c), a, m, id # <<>>)
        plain == FirstRoute(RouteTable(c), a, m, FALSE)
    IN  IF exact # None THEN [path |-> Fill(exact.path, id), query |-> <<>>]
        ELSE IF plain # None THEN [path |-> plain.path, query |-> id]
        ELSE None

(***************************************************************************)
(* Requests.                                                               *)
(***************************************************************************)
Methods == {"GET", "POST", "PUT", "DELETE", "OPTIONS"}

Texts == {"a"}

\* a text column that was never set
NoText == "NULL"

EmptyDict == [k \in {} |-> ""]

JsonDict(d) == [kind |-> "dict", val |-> d]
JsonList(l) == [kind |-> "list", val |-> l]

\* the values of the 'json' request parameter, as parsed by json.loads
Dicts == {EmptyDict} \cup {[text |-> x] : x \in Texts}

Lists == UNION {[1..n -> Dicts] : n \in 0..MaxList}

JsonPayloads == {JsonDict(d) : d \in Dicts} \cup {JsonList(l) : l \in Lists}

\* the path pieces requests append to the collection path
Tails ==
    { <<>>, <<Slash>>, <<Slash, "search">>, <<Slash, "new">>,
      <<Slash, "9">>, <<Slash, "1", Slash, "edit">>,
      <<Slash, "delete", Slash, "1">> }
    \cup {<<Slash>> \o IdStr(n) : n \in Ids}

Paths(c) ==
    {CollectionPath(c) \o t : t \in Tails}
    \cup {MountPoint(c) \o Plur(c), MountPoint(c) \o Plur(c) \o <<Slash, "1">>}
    \cup {<<Slash>>}

\* p with one of its slashes doubled
Doubled(p) ==
    {SubSeq(p, 1, i) \o <<Slash>> \o SubSeq(p, i + 1, Len(p)) :
        i \in {j \in 1..Len(p) : p[j] = Slash}}

\* request paths with a double slash in them
DoubleSlashPaths(c) ==
    Doubled(CollectionPath(c) \o <<Slash>>)
    \cup {CollectionPath(c) \o <<Slash, Slash, "1">>,
          CollectionPath(c) \o <<Slash, "1", Slash, Slash>>}

Environ(m, p, q) == [REQUEST_METHOD |-> m, PATH_INFO |-> p, params |-> q]

\* The requests a client sends: every method on every path without
\* parameters; create and update requests with form fields or a 'json'
\* parameter; requests with a 'format' or 'callback' parameter; every
\* method on the paths with a double slash.
Requests(c) ==
    {Environ(m, p, EmptyDict) : m \in Methods, p \in Paths(c)}
    \cup {Environ(m, p, EmptyDict) : m \in Methods, p \in DoubleSlashPaths(c)}
    \cup {Environ("GET", <<Slash>> \o CollectionPath(c) \o <<Slash>>,
                  [format |-> "atom"])}
    \cup {Environ("POST", CollectionPath(c), [json |-> j]) : j \in JsonPayloads}
    \cup {Environ("PUT", CollectionPath(c) \o <<Slash>> \o i, [json |-> j]) :
            i \in {<<"1">>, <<"9">>},
            j \in {JsonDict(d) : d \in Dicts} \cup {JsonList(<<>>)}}
    \cup {Environ("POST", CollectionPath(c), [text |-> "a"]),
          Environ("PUT", CollectionPath(c) \o <<Slash, "1">>, [text |-> "a"])}
    \cup {Environ("GET", CollectionPath(c), q) :
            q \in {[format |-> "atom"], [format |-> "json"],
                   [callback |-> "jsonp1234"]}}
    \cup {Environ("GET", CollectionPath(c) \o <<Slash, "1">>,
                  [callback |-> "jsonp1234"]),
          Environ("POST", CollectionPath(c), [format |-> "atom"])}

\* int(s) of a decimal string, as line 194 applies it to 'limit'; the
\* query compiles the 'offset' string to an integer the same way
int(s) ==
    CASE s = "-1" -> 0 - 1
      [] s = "0" -> 0
      [] s = "1" -> 1
      [] s = "2" -> 2
      [] s = "3" -> 3

NumberStrs == {"-1", "0", "1", "2", "3"}

\* the query strings of search requests: any of all_fields, offset and
\* limit, and a filter on the text field or none
SearchParams ==
    UNION {[ks -> NumberStrs \cup Texts] :
             ks \in SUBSET {"all_fields", "offset", "limit", "text"}}

SearchQueries ==
    {q \in SearchParams :
       /\ "all_fields" \in DOMAIN q => q.all_fields = "1"
       /\ "offset" \in DOMAIN q => q.offset \in NumberStrs \ {"-1", "3"}
       /\ "limit" \in DOMAIN q => q.limit \in NumberStrs
       /\ "text" \in DOMAIN q => q.text \in Texts}

SearchRequests(c) ==
    {Environ("GET", CollectionPath(c) \o <<Slash, "search">>, q) :
        q \in SearchQueries}

\* the requests of the threads that run in parallel
ParallelRequests(c) ==
    { Environ("GET", CollectionPath(c), EmptyDict),
      Environ("GET", CollectionPath(c) \o <<Slash, "1">>, EmptyDict),
      Environ("GET", CollectionPath(c) \o <<Slash, "search">>, EmptyDict),
      Environ("GET", CollectionPath(c) \o <<Slash, "new">>, EmptyDict),
      Environ("GET", <<Slash>>, EmptyDict),
      Environ("POST", CollectionPath(c), [json |-> JsonDict([text |-> "a"])]),
      Environ("PUT", CollectionPath(c) \o <<Slash, "1">>, EmptyDict),
      Environ("DELETE", CollectionPath(c) \o <<Slash, "1">>, EmptyDict),
      Environ("OPTIONS", MountPoint(c) \o Plur(c), EmptyDict),
      Environ("GET", CollectionPath(c), [format |-> "atom"]) }

(***************************************************************************)
(* State.                                                                  *)
(***************************************************************************)
VARIABLES
    cfg,        \* the configuration the instance was constructed with
    db,         \* the annotation table: id -> text
    nextId,     \* the next identifier the database assigns
    session,    \* self.session: the thread whose Session object it is
    url,        \* self.url: the thread whose URLGenerator it is
    mapdict,    \* self.mapdict
    request,    \* self.request: the thread whose Request object it is
    response,   \* self.response: the thread whose Response object it is
    format,     \* self.format
    pc,         \* each thread's position in __call__
    environ,    \* each thread's environ argument (and mapper.environ)
    sessions,   \* the Session object each thread created last: is it open
    requests,   \* the Request object each thread created last: its params
    responses,  \* the Response object each thread created last
    action,     \* each thread's local variable action
    out,        \* each thread's local variable out
    returned    \* what each thread's last __call__ returned or raised

vars == <<cfg, db, nextId, session, url, mapdict, request, response, format,
          pc, environ, sessions, requests, responses, action, out, returned>>

\* no thread: the attribute has not been assigned yet
Unset == 0

\* webob.Response(charset='utf8')
NewResponse ==
    [status |-> 200, headers |-> {}, content_type |-> "text/html",
     location |-> <<>>, body |-> None]

\* the header set without Access-Control-Max-Age
CorsHeadersNoMaxAge ==
    { <<"Access-Control-Allow-Origin", "*">>,
      <<"Access-Control-Expose-Headers", "Location">>,
      <<"Access-Control-Allow-Methods", "GET, POST, PUT, DELETE">> }

CorsHeaders ==
    { <<"Access-Control-Allow-Origin", "*">>,
      <<"Access-Control-Expose-Headers", "Location">>,
      <<"Access-Control-Allow-Methods", "GET, POST, PUT, DELETE">>,
      <<"Access-Control-Max-Age", "86400">> }

Init ==
    /\ cfg \in Configs
    /\ db = EmptyDict
    /\ nextId = 1
    /\ session = Unset /\ url = Unset /\ request = Unset /\ response = Unset
    /\ mapdict = None
    /\ format = "json"
    /\ pc = [t \in Threads |-> "idle"]
    /\ environ = [t \in Threads |-> Environ("GET", <<Slash>>, EmptyDict)]
    /\ sessions = [t \in Threads |-> FALSE]
    /\ requests = [t \in Threads |-> EmptyDict]
    /\ responses = [t \in Threads |-> NewResponse]
    /\ action = [t \in Threads |-> "none"]
    /\ out = [t \in Threads |-> None]
    /\ returned = [t \in Threads |-> [kind |-> "nothing"]]

(***************************************************************************)
(* The annotation entity (annotator.model) and the database session.       *)
(***************************************************************************)
\* Annotation.from_dict: a new, unsaved annotation with the dict's fields
from_dict(d) == IF "text" \in DOMAIN d THEN d.text ELSE NoText

\* Annotation.merge_dict: the fields the dict names are overwritten
merge_dict(text, d) == IF "text" \in DOMAIN d THEN d.text ELSE text

\* Annotation.as_dict
as_dict(n) == [id |-> n, text |-> db[n]]

\* session.query(Annotation).get(id) with the id string of the path
Get(id) ==
    IF \E n \in DOMAIN db : IdStr(n) = id
    THEN {CHOOSE n \in DOMAIN db : IdStr(n) = id}
    ELSE {}

Min(S) == CHOOSE m \in S : \A n \in S : m <= n

\* the rows of a query, in identifier order
RECURSIVE all(_)
all(S) == IF S = {} THEN <<>> ELSE <<Min(S)>> \o all(S \ {Min(S)})

\* a query that applies the limit to the rows before the offset
OffsetLimitFromStart(rows, o, l) ==
    LET last == IF l < 0 \/ l > Len(rows) THEN Len(rows) ELSE l
    IN  SubSeq(rows, o + 1, last)

\* q.offset(o).limit(l): l < 0 stands for limit(None)
OffsetLimit(rows, o, l) ==
    LET last == IF l < 0 \/ o + l > Len(rows) THEN Len(rows) ELSE o + l
    IN  SubSeq(rows, o + 1, last)

\* session.add(anno); session.commit(): the row gets the next identifier
Added(text) ==
    [n \in DOMAIN db \cup {nextId} |-> IF n = nextId THEN text ELSE db[n]]

\* a delete that takes the rows after n with it
DeletedFrom(n) == [m \in {k \in DOMAIN db : k < n} |-> db[m]]

\* session.delete(anno); session.commit()
Deleted(n) == [m \in DOMAIN db \ {n} |-> db[m]]

(***************************************************************************)
(* __call__, statement by statement.  Every step of thread t reads and     *)
(* writes the attributes of the one shared instance.                       *)
(***************************************************************************)
Goto(t, l) == pc' = [pc EXCEPT ![t] = l]

\* the Request and Response objects self.request and self.response refer to
TheRequest == requests[request]
TheResponse == responses[response]

SetResponse(r) == responses' = [responses EXCEPT ![response] = r]

\* an exception leaves __call__: nothing is returned
Raise(t, e) ==
    /\ returned' = [returned EXCEPT ![t] = [kind |-> "raised", error |-> e]]
    /\ Goto(t, "idle")

\* return self.response(environ, start_response)
Return(t, r) ==
    /\ returned' = [returned EXCEPT ![t] = [kind |-> "response", response |-> r]]
    /\ Goto(t, "idle")

\* lines 50-56: entry with a new environ drawn from E, the locals of the
\* call being new; a new session and URL generator; the match of the
\* request path under the thread's own mapper.environ
Call(t, E) ==
    /\ pc[t] = "idle"
    /\ \E e \in E :
         /\ environ' = [environ EXCEPT ![t] = e]
         /\ mapdict' = match(cfg, e.REQUEST_METHOD, e.PATH_INFO)
    /\ action' = [action EXCEPT ![t] = "none"]
    /\ out' = [out EXCEPT ![t] = None]
    /\ returned' = [returned EXCEPT ![t] = [kind |-> "nothing"]]
    /\ session' = t
    /\ sessions' = [sessions EXCEPT ![t] = TRUE]
    /\ url' = t
    /\ Goto(t, "request")
    /\ UNCHANGED <<cfg, db, nextId, request, response, format, requests,
                   responses>>

\* line 57
SetRequest(t) ==
    /\ pc[t] = "request"
    /\ requests' = [requests EXCEPT ![t] = environ[t].params]
    /\ request' = t
    /\ Goto(t, "response")
    /\ UNCHANGED <<cfg, db, nextId, session, url, mapdict, response, format,
                   environ, sessions, responses, action, out, returned>>

\* line 58
SetResponseObject(t) ==
    /\ pc[t] = "response"
    /\ responses' = [responses EXCEPT ![t] = NewResponse]
    /\ response' = t
    /\ Goto(t, "format")
    /\ UNCHANGED <<cfg, db, nextId, session, url, mapdict, request, format,
                   environ, sessions, requests, action, out, returned>>

\* line 59
SetFormat(t) ==
    /\ pc[t] = "format"
    /\ format' = IF "format" \in DOMAIN TheRequest THEN TheRequest.format
                 ELSE "json"
    /\ Goto(t, "cors")
    /\ UNCHANGED <<cfg, db, nextId, session, url, mapdict, request, response,
                   environ, sessions, requests, responses, action, out,
                   returned>>

\* lines 62-67
Cors(t) ==
    /\ pc[t] = "cors"
    /\ SetResponse([TheResponse EXCEPT !.headers = @ \cup CorsHeaders])
    /\ Goto(t, "check")
    /\ UNCHANGED <<cfg, db, nextId, session, url, mapdict, request, response,
                   format, environ, sessions, requests, action, out, returned>>

TextBody(s) == [kind |-> "text", val |-> s]

\* lines 69-72: the session is not closed on this path
UnknownFormat(t) ==
    /\ pc[t] = "check"
    /\ format \notin {"json"}
    /\ LET r == [TheResponse EXCEPT !.status = 500,
                                    !.body = TextBody("Unknown format")]
       IN  SetResponse(r) /\ Return(t, r)
    /\ UNCHANGED <<cfg, db, nextId, session, url, mapdict, request, response,
                   format, environ, sessions, requests, action, out>>

KnownFormat(t) ==
    /\ pc[t] = "check"
    /\ format \in {"json"}
    /\ Goto(t, "dispatch")
    /\ UNCHANGED <<cfg, db, nextId, session, url, mapdict, request, response,
                   format, environ, sessions, requests, responses, action,
                   out, returned>>

\* lines 82-83
NoMatch(t) ==
    /\ pc[t] = "dispatch"
    /\ mapdict = None
    /\ SetResponse([TheResponse EXCEPT !.status = 404,
                                       !.body = TextBody("Not Found")])
    /\ Goto(t, "close")
    /\ UNCHANGED <<cfg, db, nextId, session, url, mapdict, request, response,
                   format, environ, sessions, requests, action, out, returned>>

(***************************************************************************)
(* The handlers: lines 74-77 call the method named by the matched action.  *)
(***************************************************************************)
Dispatching(t, a) ==
    /\ pc[t] = "dispatch"
    /\ mapdict # None
    /\ mapdict.action = a
    /\ action' = [action EXCEPT ![t] = a]

\* the handler returned out
Handled(t, o) ==
    /\ out' = [out EXCEPT ![t] = o]
    /\ Goto(t, "body")
    /\ UNCHANGED returned

\* _json(result): the content type it sets and the text it returns
JsonType == IF "callback" \in DOMAIN TheRequest THEN "text/javascript"
            ELSE "application/json"

JsonBody(result) ==
    IF "callback" \in DOMAIN TheRequest
    THEN [kind |-> "jsonp", callback |-> TheRequest.callback, val |-> result]
    ELSE [kind |-> "json", val |-> result]

\* _404() as called by a handler
Handler404(t) ==
    /\ SetResponse([TheResponse EXCEPT !.status = 404])
    /\ Handled(t, TextBody("Not Found"))

\* line 76: new and edit are routed but the class has no such method
NoHandler(t) ==
    /\ \E a \in {"new", "edit"} : Dispatching(t, a)
    /\ Raise(t, "AttributeError")
    /\ UNCHANGED <<cfg, db, nextId, session, url, mapdict, request, response,
                   format, environ, sessions, requests, responses, out>>

\* lines 113-117
IndexLimit == 100

index(t) ==
    /\ Dispatching(t, "index")
    /\ LET rows == OffsetLimit(all(DOMAIN db), 0, IndexLimit)
           result == [i \in DOMAIN rows |-> as_dict(rows[i])]
       IN  /\ SetResponse([TheResponse EXCEPT !.content_type = JsonType])
           /\ Handled(t, JsonBody(result))
    /\ UNCHANGED <<cfg, db, nextId, session, url, mapdict, request, response,
                   format, environ, sessions, requests>>

\* lines 119-127
show(t) ==
    /\ Dispatching(t, "show")
    /\ IF "id" \notin DOMAIN mapdict
       THEN Raise(t, "KeyError") /\ UNCHANGED <<responses, out>>
       ELSE LET anno == Get(mapdict.id)
            IN  IF anno = {} THEN Handler404(t)
                ELSE \E n \in anno :
                       /\ SetResponse([TheResponse EXCEPT
                                         !.content_type = JsonType])
                       /\ Handled(t, JsonBody(as_dict(n)))
    /\ UNCHANGED <<cfg, db, nextId, session, url, mapdict, request, response,
                   format, environ, sessions, requests>>

\* lines 130-133 and 157-160: the parsed 'json' parameter, or the
\* parameters themselves as a dict
Params ==
    IF "json" \in DOMAIN TheRequest THEN TheRequest.json
    ELSE JsonDict(TheRequest)

\* lines 135-139: the annotation the name anno is bound to after the loop
\* (the set is empty when the loop body never ran)
LastAnno(params) ==
    IF params.kind = "list"
    THEN IF params.val = <<>> THEN {}
         ELSE {from_dict(params.val[Len(params.val)])}
    ELSE {from_dict(params.val)}

\* lines 129-147
create(t) ==
    /\ Dispatching(t, "create")
    /\ LET anno == LastAnno(Params)
       IN  IF anno = {}
           THEN /\ Raise(t, "UnboundLocalError")
                /\ UNCHANGED <<db, nextId, responses, out>>
           ELSE /\ nextId <= MaxId
                /\ \E text \in anno : db' = Added(text)
                /\ nextId' = nextId + 1
                /\ SetResponse([TheResponse EXCEPT
                       !.status = 303,
                       !.location = URLGenerator(cfg, <<"annotation">>,
                                                 IdStr(nextId))])
                /\ Handled(t, None)
    /\ UNCHANGED <<cfg, session, url, mapdict, request, response, format,
                   environ, sessions, requests>>

\* lines 149-167
update(t) ==
    /\ Dispatching(t, "update")
    /\ IF "id" \notin DOMAIN mapdict
       THEN Raise(t, "KeyError") /\ UNCHANGED <<db, responses, out>>
       ELSE LET anno == Get(mapdict.id)
            IN  IF anno = {} THEN Handler404(t) /\ UNCHANGED db
                ELSE IF Params.kind = "list"
                THEN Raise(t, "TypeError") /\ UNCHANGED <<db, responses, out>>
                ELSE \E n \in anno :
                       LET text == merge_dict(db[n], Params.val)
                       IN  /\ db' = [db EXCEPT ![n] = text]
                           /\ SetResponse([TheResponse EXCEPT
                                             !.content_type = JsonType])
                           /\ Handled(t, JsonBody([id |-> n, text |-> text]))
    /\ UNCHANGED <<cfg, nextId, session, url, mapdict, request, response,
                   format, environ, sessions, requests>>

\* lines 169-183, with session.delete and session.commit succeeding
delete(t) ==
    /\ Dispatching(t, "delete")
    /\ IF "id" \notin DOMAIN mapdict
       THEN Raise(t, "KeyError") /\ UNCHANGED <<db, responses, out>>
       ELSE LET anno == Get(mapdict.id)
            IN  IF anno = {} THEN Handler404(t) /\ UNCHANGED db
                ELSE \E n \in anno :
                       /\ db' = Deleted(n)
                       /\ SetResponse([TheResponse EXCEPT !.status = 204])
                       /\ Handled(t, None)
    /\ UNCHANGED <<cfg, nextId, session, url, mapdict, request, response,
                   format, environ, sessions, requests>>

\* lines 185-218
DefaultLimit == 100

search(t) ==
    /\ Dispatching(t, "search")
    /\ LET q == TheRequest
           params == DOMAIN q \ {"all_fields", "offset", "limit"}
           all_fields == "all_fields" \in DOMAIN q
           offset == IF "offset" \in DOMAIN q THEN int(q.offset) ELSE 0
           limit == IF "limit" \in DOMAIN q THEN int(q.limit)
                    ELSE DefaultLimit
           hits == {n \in DOMAIN db : "text" \in params => db[n] = q.text}
           rows == OffsetLimit(all(hits), offset, limit)
           results == [i \in DOMAIN rows |->
                         IF all_fields THEN as_dict(rows[i])
                         ELSE [id |-> rows[i]]]
       IN  IF params \ {"text"} # {}
           THEN Raise(t, "InvalidRequestError") /\ UNCHANGED <<responses, out>>
           ELSE /\ SetResponse([TheResponse EXCEPT !.content_type = JsonType])
                /\ Handled(t, JsonBody([total |-> Cardinality(hits),
                                        results |-> results]))
    /\ UNCHANGED <<cfg, db, nextId, session, url, mapdict, request, response,
                   format, environ, sessions, requests>>

\* lines 220-222
cors_preflight(t) ==
    /\ Dispatching(t, "cors_preflight")
    /\ SetResponse([TheResponse EXCEPT !.status = 204])
    /\ Handled(t, None)
    /\ UNCHANGED <<cfg, db, nextId, session, url, mapdict, request, response,
                   format, environ, sessions, requests>>

\* lines 78-81
SetBody(t) ==
    /\ pc[t] = "body"
    /\ LET r == IF out[t] # None THEN [TheResponse EXCEPT !.body = out[t]]
                ELSE TheResponse
       IN  IF r.status = 204
           THEN IF r.content_type = "" 
                THEN /\ Raise(t, "KeyError")
                     /\ SetResponse(r)
                ELSE /\ SetResponse([r EXCEPT !.content_type = ""])
                     /\ Goto(t, "close")
                     /\ UNCHANGED returned
           ELSE /\ SetResponse(r)
                /\ Goto(t, "close")
                /\ UNCHANGED returned
    /\ UNCHANGED <<cfg, db, nextId, session, url, mapdict, request, response,
                   format, environ, sessions, requests, action, out>>

\* lines 85-86
Close(t) ==
    /\ pc[t] = "close"
    /\ sessions' = [sessions EXCEPT ![session] = FALSE]
    /\ Return(t, TheResponse)
    /\ UNCHANGED <<cfg, db, nextId, session, url, mapdict, request, response,
                   format, environ, requests, responses, action, out>>

\* the steps of a call after its entry
Handle(t) ==
    \/ SetRequest(t) \/ SetResponseObject(t) \/ SetFormat(t) \/ Cors(t)
    \/ UnknownFormat(t) \/ KnownFormat(t) \/ NoMatch(t) \/ NoHandler(t)
    \/ index(t) \/ show(t) \/ create(t) \/ update(t) \/ delete(t)
    \/ search(t) \/ cors_preflight(t) \/ SetBody(t) \/ Close(t)

\* requests handled one at a time, by one thread
NextSeq == Call(1, Requests(cfg)) \/ Handle(1)

SpecSeq == Init /\ [][NextSeq]_vars

\* The stores a search runs over: the table outlives the application, so
\* an instance may start on any contents; one store holds more rows than
\* the default limit.
Stores ==
    UNION {[1..n -> Texts \cup {NoText}] : n \in 0..MaxRows}
    \cup {[n \in 1..(DefaultLimit + 1) |-> "a"]}

InitSearch ==
    /\ cfg \in Configs
    /\ db \in Stores
    /\ nextId = Cardinality(DOMAIN db) + 1
    /\ session = Unset /\ url = Unset /\ request = Unset /\ response = Unset
    /\ mapdict = None
    /\ format = "json"
    /\ pc = [t \in Threads |-> "idle"]
    /\ environ = [t \in Threads |-> Environ("GET", <<Slash>>, EmptyDict)]
    /\ sessions = [t \in Threads |-> FALSE]
    /\ requests = [t \in Threads |-> EmptyDict]
    /\ responses = [t \in Threads |-> NewResponse]
    /\ action = [t \in Threads |-> "none"]
    /\ out = [t \in Threads |-> None]
    /\ returned = [t \in Threads |-> [kind |-> "nothing"]]

\* one search request on a new instance (a search leaves the store as it
\* is, so a later search sees what a first one sees)
NextSearch ==
    \/ returned[1].kind = "nothing" /\ Call(1, SearchRequests(cfg))
    \/ SetRequest(1) \/ SetResponseObject(1) \/ SetFormat(1) \/ Cors(1)
    \/ KnownFormat(1) \/ search(1) \/ SetBody(1) \/ Close(1)

SpecSearch == InitSearch /\ [][NextSearch]_vars

\* requests handled in parallel on the one instance, one by each thread
FirstCall(t) == returned[t].kind = "nothing"

Next ==
    \E t \in Threads :
        \/ FirstCall(t) /\ Call(t, ParallelRequests(cfg))
        \/ Handle(t)

Spec == Init /\ [][Next]_vars

(***************************************************************************)
(* Properties.                                                             *)
(***************************************************************************)
\* the URL {mount}/{plural} of the configured collection
PluralUrl ==
    LET mount == strip_slashes(cfg.mount_point)
    IN  (IF mount = <<>> THEN <<>> ELSE <<Slash>> \o mount)
        \o <<Slash>> \o cfg.resource_name[2]

\* the id segments requests address
IdSegs == {IdStr(n) : n \in Ids} \cup {<<"9">>}

ItemUrl(id) == PluralUrl \o <<Slash>> \o id

Method(t) == environ[t].REQUEST_METHOD
Path(t) == environ[t].PATH_INFO

\* thread t has just matched its request: mapdict holds the result
Matched(t) == pc[t] = "request"

\* C1: for every configured mount point and resource name, GET and POST on
\* {mount}/{plural} match index and create, GET, PUT and DELETE on
\* {mount}/{plural}/{id} match show, update and delete with that id, and
\* GET {mount}/{plural}/search matches search, never show.
C1_ResourceRoutes ==
    \A t \in Threads :
        Matched(t) =>
            /\ Path(t) = PluralUrl /\ Method(t) = "GET"
                 => mapdict = [action |-> "index"]
            /\ Path(t) = PluralUrl /\ Method(t) = "POST"
                 => mapdict = [action |-> "create"]
            /\ Path(t) = PluralUrl \o <<Slash, "search">> /\ Method(t) = "GET"
                 => mapdict = [action |-> "search"]
            /\ \A id \in IdSegs :
                 Path(t) = ItemUrl(id) =>
                   /\ Method(t) = "GET"
                        => mapdict = [action |-> "show", id |-> id]
                   /\ Method(t) = "PUT"
                        => mapdict = [action |-> "update", id |-> id]
                   /\ Method(t) = "DELETE"
                        => mapdict = [action |-> "delete", id |-> id]

C1_Witness ==
    /\ Matched(1)
    /\ cfg.mount_point = <<Slash, ".annotation-xyz">>
    /\ Method(1) = "GET"
    /\ Path(1) = PluralUrl \o <<Slash, "search">>
    /\ mapdict = [action |-> "search"]

\* C2: when calls on the one instance interleave, every step of a call
\* reads the match result, request, response, format and session of its
\* own request, and the handler it invokes is the one its own request
\* matched.
OwnMatch(t) == match(cfg, Method(t), Path(t))

OwnFormat(t) ==
    IF "format" \in DOMAIN environ[t].params THEN environ[t].params.format
    ELSE "json"

C2_Isolated ==
    \A t \in Threads :
        /\ pc[t] = "format" => request = t
        /\ pc[t] \in {"cors", "check", "dispatch", "body", "close"}
             => response = t
        /\ pc[t] = "check" => format = OwnFormat(t)
        /\ pc[t] = "dispatch"
             => mapdict = OwnMatch(t) /\ request = t /\ session = t
        /\ pc[t] = "close" => session = t
        /\ action[t] # "none"
             => OwnMatch(t) # None /\ action[t] = OwnMatch(t).action

\* C3: a create whose JSON payload is a list of n objects adds exactly n
\* entities, and a create whose payload is a single object adds exactly one.
PayloadSize(q) ==
    IF "json" \in DOMAIN q /\ q.json.kind = "list" THEN Len(q.json.val)
    ELSE 1

C3_CreateAddsAll ==
    [][\A t \in Threads :
          (/\ pc[t] = "dispatch"
           /\ pc'[t] # "dispatch"
           /\ mapdict = [action |-> "create"])
          => Cardinality(DOMAIN db') =
               Cardinality(DOMAIN db) + PayloadSize(environ[t].params)]_vars

\* C4: for every configured mount point and resource name, a successful
\* create answers 303 with a Location equal to the show URL of the entity it
\* created, so that a GET on the Location matches show with the new id.
Created(t) == pc[t] = "body" /\ action[t] = "create"

C4_LocationIsShowUrl ==
    \A t \in Threads :
        Created(t) =>
            LET new == nextId - 1
            IN  /\ new \in DOMAIN db
                /\ TheResponse.status = 303
                /\ TheResponse.location = ItemUrl(IdStr(new))
                /\ match(cfg, "GET", TheResponse.location)
                     = [action |-> "show", id |-> IdStr(new)]

\* C5: every response the application returns carries the four CORS
\* headers, whatever the outcome.
C5_CorsOnEveryResponse ==
    \A t \in Threads :
        returned[t].kind = "response" =>
            { <<"Access-Control-Allow-Origin", "*">>,
              <<"Access-Control-Expose-Headers", "Location">>,
              <<"Access-Control-Allow-Methods", "GET, POST, PUT, DELETE">>,
              <<"Access-Control-Max-Age", "86400">> }
            \subseteq returned[t].response.headers

C5_Witness ==
    /\ returned[1].kind = "response"
    /\ returned[1].response.status = 500
    /\ Cardinality(returned[1].response.headers) = 4

\* C6: for every configured mount point, root or not, OPTIONS on
\* {mount}/{plural} and on {mount}/{plural}/{id} matches cors_preflight and
\* the response is 204.
Preflight(t) ==
    /\ Method(t) = "OPTIONS"
    /\ Path(t) \in {PluralUrl} \cup {ItemUrl(id) : id \in IdSegs}

C6_Preflight ==
    \A t \in Threads :
        Preflight(t) =>
            /\ Matched(t)
                 => mapdict # None /\ mapdict.action = "cors_preflight"
            /\ returned[t].kind = "response"
                 => returned[t].response.status = 204

\* C7: DELETE {mount}/{plural}/{id} of an existing entity answers 204 with
\* no body and no content type and removes that entity and no other, after
\* which the id is not found; of a missing entity it answers 404 and leaves
\* the store as it was.
DeleteRequest(t, id) == Method(t) = "DELETE" /\ Path(t) = ItemUrl(id)

Exists(id) == \E n \in DOMAIN db : IdStr(n) = id

C7_Delete ==
    [][\A t \in Threads : \A id \in IdSegs :
          DeleteRequest(t, id) =>
            /\ (pc[t] = "dispatch" /\ pc'[t] # "dispatch" /\ Exists(id))
                 => /\ pc'[t] = "body"
                    /\ responses'[t].status = 204
                    /\ ~ \E n \in DOMAIN db' : IdStr(n) = id
                    /\ \A n \in DOMAIN db :
                         IdStr(n) # id => n \in DOMAIN db' /\ db'[n] = db[n]
                    /\ DOMAIN db' \subseteq DOMAIN db
            /\ (pc[t] = "dispatch" /\ pc'[t] # "dispatch" /\ ~ Exists(id))
                 => /\ pc'[t] = "body"
                    /\ responses'[t].status = 404
                    /\ db' = db
            /\ (pc[t] = "close" /\ pc'[t] = "idle")
                 => /\ returned'[t].kind = "response"
                    /\ returned'[t].response.status \in {204, 404}
                    /\ returned'[t].response.status = responses[t].status
                    /\ returned'[t].response.status = 204
                         => /\ returned'[t].response.body = None
                            /\ returned'[t].response.content_type = ""]_vars

C7_Witness ==
    /\ returned[1].kind = "response"
    /\ DeleteRequest(1, <<"1">>)
    /\ returned[1].response.status = 204
    /\ returned[1].response.content_type = ""
    /\ DOMAIN db = {2}

\* C8: on {mount}/{plural}/{id}, PUT and POST both match update with the
\* id segment as the id.
C8_PutAndPostUpdate ==
    \A t \in Threads : \A id \in IdSegs :
        (Matched(t) /\ Method(t) \in {"PUT", "POST"} /\ Path(t) = ItemUrl(id))
        => mapdict = [action |-> "update", id |-> id]

\* C9: GET {mount}/{plural}/delete/1 and DELETE {mount}/{plural}/1 both
\* match delete with the id '1'.
C9_DeleteByGetAndDelete ==
    \A t \in Threads :
        Matched(t) =>
            /\ Method(t) = "GET"
               /\ Path(t) = PluralUrl \o <<Slash, "delete", Slash, "1">>
                 => mapdict = [action |-> "delete", id |-> <<"1">>]
            /\ Method(t) = "DELETE" /\ Path(t) = ItemUrl(<<"1">>)
                 => mapdict = [action |-> "delete", id |-> <<"1">>]

\* C10: for every route of the table and every id, the path generated for
\* the route's action and method matches back to that action and id;
\* generating delete for GET gives {mount}/{plural}/delete/1 and for DELETE
\* gives {mount}/{plural}/1.
\* the bindings of a route: an id where its path has one, none otherwise
Bindings(r) == IF HasId(r) THEN IdSegs \cup {<<"search">>} ELSE {<<>>}

RoundTrip(r, m, id) ==
    LET generated == generate(cfg, r.action, id, m)
    IN  /\ generated # None
        /\ generated.query = <<>>
        /\ match(cfg, m, generated.path) =
             IF HasId(r) THEN [action |-> r.action, id |-> id]
             ELSE [action |-> r.action]

C10_RoundTrip ==
    /\ \A i \in DOMAIN RouteTable(cfg) :
         \A m \in RouteTable(cfg)[i].methods :
           \A id \in Bindings(RouteTable(cfg)[i]) :
              RoundTrip(RouteTable(cfg)[i], m, id)
    /\ generate(cfg, "delete", <<"1">>, "GET")
         = [path |-> PluralUrl \o <<Slash, "delete", Slash, "1">>,
            query |-> <<>>]
    /\ generate(cfg, "delete", <<"1">>, "DELETE")
         = [path |-> ItemUrl(<<"1">>), query |-> <<>>]

\* C11: a request path with a double slash in it matches no route, whatever
\* the method, the mount point and the resource name, and the response to
\* the request is 404 (the request asking for no format but json).
HasDoubleSlash(p) == \E i \in 1..(Len(p) - 1) : p[i] = Slash /\ p[i + 1] = Slash

JsonFormat(t) ==
    "format" \in DOMAIN environ[t].params => environ[t].params.format = "json"

C11_DoubleSlash ==
    \A t \in Threads :
        HasDoubleSlash(Path(t)) =>
            /\ pc[t] # "idle" => mapdict = None
            /\ returned[t].kind # "raised"
            /\ (returned[t].kind = "response" /\ JsonFormat(t))
                 => returned[t].response.status = 404

C11_Witness ==
    /\ Method(1) = "GET"
    /\ Path(1) = <<Slash>> \o CollectionPath(cfg) \o <<Slash>>
    /\ JsonFormat(1)
    /\ returned[1].kind = "response"
    /\ returned[1].response.status = 404

\* C12: for a search over any store contents and filters, 'total' is the
\* number of entities that match the filters, whatever the offset and the
\* limit; with limit < 0 the results are all the matching entities from the
\* offset on; with limit = k >= 0 they are min(k, matches left after the
\* offset) entities; with no limit at most 100 entities are returned.
Searched(t) ==
    /\ returned[t].kind = "response"
    /\ action[t] = "search"

\* the entities that match the filters of the query string q
Matching(q) == {n \in DOMAIN db : "text" \in DOMAIN q => db[n] = q.text}

\* how many of them are left after the offset
Remaining(q) ==
    LET skipped == IF "offset" \in DOMAIN q THEN int(q.offset) ELSE 0
        left == Cardinality(Matching(q)) - skipped
    IN  IF left < 0 THEN 0 ELSE left

AtMost(k, n) == IF k < n THEN k ELSE n

C12_Search ==
    \A t \in Threads :
        Searched(t) =>
            LET q == environ[t].params
                body == returned[t].response.body
                ids == {body.val.results[i].id : i \in DOMAIN body.val.results}
            IN  /\ returned[t].response.status = 200
                /\ body.val.total = Cardinality(Matching(q))
                /\ ids \subseteq Matching(q)
                /\ Cardinality(ids) = Len(body.val.results)
                /\ "limit" \notin DOMAIN q
                     => /\ Len(body.val.results) = AtMost(100, Remaining(q))
                        /\ Len(body.val.results) <= 100
                /\ ("limit" \in DOMAIN q /\ int(q.limit) < 0)
                     => /\ Len(body.val.results) = Remaining(q)
                        /\ \A n \in Matching(q) \ ids :
                             Cardinality({m \in Matching(q) : m < n})
                               < Cardinality(Matching(q)) - Remaining(q)
                /\ ("limit" \in DOMAIN q /\ int(q.limit) >= 0)
                     => Len(body.val.results)
                          = AtMost(int(q.limit), Remaining(q))

\* limit=1 over three entities: one result, a total of three
C12_Witness ==
    /\ Searched(1)
    /\ environ[1].params = [limit |-> "1"]
    /\ returned[1].response.body.val.total = 3
    /\ Len(returned[1].response.body.val.results) = 1

====
